---- MODULE Spec2Model ----
(***************************************************************************)
(* Receipt and Invoice Digitizer.                                          *)
(*                                                                         *)
(* Two programs of the repository are modelled:                            *)
(*   - src/Milestone 2/main.py : the structured-extraction variant (an     *)
(*     external service returns JSON; validate_receipt judges it);         *)
(*   - src/app.py              : the rule-based variant (regex extraction, *)
(*     line-item reconciliation against the stored total).                 *)
(*                                                                         *)
(* Amounts are Python floats (IEEE-754 binary64).  They are modelled       *)
(* exactly: a float is a sign, a 53-bit mantissa held as a multi-limb      *)
(* natural, and a binary exponent; every operation rounds to nearest,      *)
(* ties to even, as the hardware does.                                     *)
(***************************************************************************)
EXTENDS Integers, Sequences, FiniteSets, TLC

-----------------------------------------------------------------------------
(* Multi-limb naturals: little-endian sequences of limbs, most significant *)
(* limb non-zero, <<>> is zero.                                            *)

Limb == 2^15

Max(a, b) == IF a >= b THEN a ELSE b

Min(a, b) == IF a <= b THEN a ELSE b

RECURSIVE NNorm(_)
NNorm(a) ==
    IF a = <<>> THEN <<>>
    ELSE IF a[Len(a)] = 0 THEN NNorm(SubSeq(a, 1, Len(a) - 1))
    ELSE a

RECURSIVE NFromInt(_)
NFromInt(n) == IF n = 0 THEN <<>> ELSE <<n % Limb>> \o NFromInt(n \div Limb)

RECURSIVE NToInt(_)
NToInt(a) == IF a = <<>> THEN 0 ELSE Head(a) + Limb * NToInt(Tail(a))

NLimb(a, i) == IF i <= Len(a) THEN a[i] ELSE 0

RECURSIVE NAddC(_, _, _, _)
NAddC(a, b, i, c) ==
    IF i > Max(Len(a), Len(b))
    THEN IF c = 0 THEN <<>> ELSE <<c>>
    ELSE LET s == NLimb(a, i) + NLimb(b, i) + c
         IN  <<s % Limb>> \o NAddC(a, b, i + 1, s \div Limb)

NAdd(a, b) == NAddC(a, b, 1, 0)

\* a - b for a >= b
RECURSIVE NSubB(_, _, _, _)
NSubB(a, b, i, br) ==
    IF i > Len(a) THEN <<>>
    ELSE LET s == a[i] - NLimb(b, i) - br
         IN  IF s < 0 THEN <<s + Limb>> \o NSubB(a, b, i + 1, 1)
             ELSE <<s>> \o NSubB(a, b, i + 1, 0)

NSub(a, b) == NNorm(NSubB(a, b, 1, 0))

\* -1, 0, 1 as a < b, a = b, a > b
RECURSIVE NCmpFrom(_, _, _)
NCmpFrom(a, b, i) ==
    IF i = 0 THEN 0
    ELSE IF a[i] < b[i] THEN -1
    ELSE IF a[i] > b[i] THEN 1
    ELSE NCmpFrom(a, b, i - 1)

NCmp(a, b) ==
    IF Len(a) < Len(b) THEN -1
    ELSE IF Len(a) > Len(b) THEN 1
    ELSE NCmpFrom(a, b, Len(a))

\* a * m for 0 <= m < Limb
RECURSIVE NMulSmallC(_, _, _, _)
NMulSmallC(a, m, i, c) ==
    IF i > Len(a)
    THEN IF c = 0 THEN <<>> ELSE <<c>>
    ELSE LET s == a[i] * m + c
         IN  <<s % Limb>> \o NMulSmallC(a, m, i + 1, s \div Limb)

NMulSmall(a, m) == IF m = 0 THEN <<>> ELSE NMulSmallC(a, m, 1, 0)

NShiftLimbs(a, q) == IF a = <<>> THEN <<>> ELSE [i \in 1..q |-> 0] \o a

RECURSIVE NMul(_, _)
NMul(a, b) ==
    IF b = <<>> THEN <<>>
    ELSE NAdd(NMulSmall(a, Head(b)), NShiftLimbs(NMul(a, Tail(b)), 1))

\* floor(a / d) for 0 < d < Limb, from the most significant limb down
RECURSIVE NDivSmallR(_, _, _, _)
NDivSmallR(a, d, i, r) ==
    IF i = 0 THEN <<>>
    ELSE LET s == r * Limb + a[i]
         IN  NDivSmallR(a, d, i - 1, s % d) \o <<s \div d>>

NDivSmall(a, d) == NNorm(NDivSmallR(a, d, Len(a), 0))

\* a * 2^k
NShl(a, k) == NShiftLimbs(NMulSmall(a, 2^(k % 15)), k \div 15)

\* floor(a / 2^k)
NShr(a, k) ==
    IF k \div 15 >= Len(a) THEN <<>>
    ELSE NDivSmall(SubSeq(a, (k \div 15) + 1, Len(a)), 2^(k % 15))

RECURSIVE IntBitLen(_)
IntBitLen(n) == IF n = 0 THEN 0 ELSE 1 + IntBitLen(n \div 2)

NBitLen(a) == IF a = <<>> THEN 0 ELSE 15 * (Len(a) - 1) + IntBitLen(a[Len(a)])

NIsOdd(a) == a # <<>> /\ a[1] % 2 = 1

-----------------------------------------------------------------------------
(* binary64.  A float is [neg, m, e]: value (-1)^neg * m * 2^e with m = 0  *)
(* (and e = 0, neg = FALSE) or 2^52 <= m < 2^53.  The amounts of a receipt *)
(* stay far from the subnormal and overflow ranges, which are not          *)
(* modelled.                                                               *)

\* Python evaluates the operands of an operation before the operation: F is
\* applied to the values of its operands.
Value1(F(_), a) == CHOOSE r \in {F(v) : v \in {a}} : TRUE

Value2(F(_, _), a, b) == CHOOSE r \in {F(u, v) : u \in {a}, v \in {b}} : TRUE

Precision == 53

FZero == [neg |-> FALSE, m |-> <<>>, e |-> 0]

\* (M + t) * 2^E with 0 <= t < 1 and sticky = (t # 0), rounded to nearest,
\* ties to even.  With sticky set, M has at least Precision + 2 bits.
FRound(neg, M, E, sticky) ==
    LET len == NBitLen(M) IN
    IF M = <<>> THEN FZero
    ELSE IF len <= Precision
    THEN [neg |-> neg, m |-> NShl(M, Precision - len), e |-> E - (Precision - len)]
    ELSE LET d    == len - Precision
             q    == NShr(M, d)
             rem  == NSub(M, NShl(q, d))
             half == NShl(<<1>>, d - 1)
             c    == NCmp(rem, half)
             up   == c > 0 \/ (c = 0 /\ (sticky \/ NIsOdd(q)))
             r    == IF up THEN NAdd(q, <<1>>) ELSE q
         IN  IF NBitLen(r) > Precision
             THEN [neg |-> neg, m |-> NShr(r, 1), e |-> E + d + 1]
             ELSE [neg |-> neg, m |-> r, e |-> E + d]

\* float(n) of a Python int
FFromIntV(n) == FRound(n < 0, NFromInt(IF n < 0 THEN -n ELSE n), 0, FALSE)

FFromInt(n) == Value1(FFromIntV, n)

FNeg(x) == IF x.m = <<>> THEN x ELSE [x EXCEPT !.neg = ~x.neg]

FAbs(x) == [x EXCEPT !.neg = FALSE]

\* x + y
FAddV(x, y) ==
    IF x.m = <<>> THEN y
    ELSE IF y.m = <<>> THEN x
    ELSE LET e  == Min(x.e, y.e)
             mx == NShl(x.m, x.e - e)
             my == NShl(y.m, y.e - e)
             c  == NCmp(mx, my)
         IN  IF x.neg = y.neg THEN FRound(x.neg, NAdd(mx, my), e, FALSE)
             ELSE IF c = 0 THEN FZero
             ELSE IF c > 0 THEN FRound(x.neg, NSub(mx, my), e, FALSE)
             ELSE FRound(y.neg, NSub(my, mx), e, FALSE)

FAdd(x, y) == Value2(FAddV, x, y)

\* x - y
FSub(x, y) == FAdd(x, FNeg(y))

\* x * y
FMulV(x, y) == FRound(x.neg # y.neg, NMul(x.m, y.m), x.e + y.e, FALSE)

FMul(x, y) == Value2(FMulV, x, y)

\* One limb of a long division: n quotient bits from remainder r < d, the
\* quotient bits gathered in the integer q.
RECURSIVE NDivLimb(_, _, _, _)
NDivLimb(r, d, q, n) ==
    IF n = 0 THEN [q |-> q, r |-> r]
    ELSE LET r2 == NAdd(r, r)
         IN  IF NCmp(r2, d) >= 0
             THEN NDivLimb(NSub(r2, d), d, 2 * q + 1, n - 1)
             ELSE NDivLimb(r2, d, 2 * q, n - 1)

\* floor(r * 2^(15 * k) / d) for r < d, and whether the division is inexact:
\* k limbs, the most significant first
RECURSIVE NDivFrac(_, _, _)
NDivFrac(r, d, k) ==
    IF k = 0 THEN [q |-> <<>>, inexact |-> r # <<>>]
    ELSE LET top  == NDivLimb(r, d, 0, 15)
             rest == NDivFrac(top.r, d, k - 1)
         IN  [q |-> rest.q \o <<top.q>>, inexact |-> rest.inexact]

\* x / y for y # 0: the quotient of the mantissas lies in (1/2, 2); its
\* integer bit and 60 fraction bits, then one rounding
FDivV(x, y) ==
    IF x.m = <<>> THEN FZero
    ELSE LET first == NCmp(x.m, y.m) >= 0
             r0    == IF first THEN NSub(x.m, y.m) ELSE x.m
             frac  == NDivFrac(r0, y.m, 4)
             q     == NNorm(frac.q \o <<IF first THEN 1 ELSE 0>>)
         IN  FRound(x.neg # y.neg, q, x.e - y.e - 60, frac.inexact)

FDiv(x, y) == Value2(FDivV, x, y)

\* x < y
FLtV(x, y) ==
    IF x.m = <<>> THEN y.m # <<>> /\ ~y.neg
    ELSE IF y.m = <<>> THEN x.neg
    ELSE IF x.neg # y.neg THEN x.neg
    ELSE LET lt == x.e < y.e \/ (x.e = y.e /\ NCmp(x.m, y.m) < 0)
             gt == x.e > y.e \/ (x.e = y.e /\ NCmp(x.m, y.m) > 0)
         IN  IF x.neg THEN gt ELSE lt

FLt(x, y) == Value2(FLtV, x, y)

\* x <= y
FLe(x, y) == ~FLt(y, x)

\* the float a decimal literal of k hundredths denotes: float("10.83"), or
\* the JSON number 10.83
FFromCents(k) == FDiv(FFromInt(k), FFromInt(100))

\* the hundredths the decimal literals of the receipts below count
KnownCents ==
    {-100, -1, 0, 4, 5, 7, 10, 20, 30, 64, 80, 100, 120, 123, 200, 400, 410, 420,
     500, 533, 800, 864, 1000, 1010, 1080, 1083, 1084, 3000, 3001, 10000, 13000,
     123450}

\* their doubles, computed once
FloatOfCents == {<<k, FFromCents(k)>> : k \in KnownCents}

\* the double nearest to the decimal number of k hundredths: what float() of
\* its literal, and json.loads of it, give
FDecimalV(k) ==
    IF k \in KnownCents
    THEN (CHOOSE p \in FloatOfCents : p[1] = k)[2]
    ELSE FFromCents(k)

FDecimal(k) == Value1(FDecimalV, k)

\* f"{x:.2f}" (scale 100) and f"{x:.1f}" (scale 10): the sign and the digits,
\* round(|x| * scale) with ties to even on the exact binary value; n = 1083
\* at scale 100 is the text "10.83"
FmtV(x, scale) ==
    IF x.m = <<>> THEN [neg |-> FALSE, n |-> 0]
    ELSE LET M == NMulSmall(x.m, scale)
             v == IF x.e >= 0 THEN NToInt(NShl(M, x.e))
                  ELSE LET q    == NShr(M, -x.e)
                           rem  == NSub(M, NShl(q, -x.e))
                           half == NShl(<<1>>, -x.e - 1)
                           c    == NCmp(rem, half)
                       IN  NToInt(IF c > 0 \/ (c = 0 /\ NIsOdd(q))
                                  THEN NAdd(q, <<1>>) ELSE q)
         IN  [neg |-> x.neg, n |-> v]

Fmt(x, scale) == Value2(FmtV, x, scale)

-----------------------------------------------------------------------------
(* Values.  A text field of a JSON reply, a Python variable or a table     *)
(* column holds a string or nothing (JSON null, Python None, SQL NULL):    *)
(* <<s>> is the string s and <<>> is nothing.  A JSON amount is <<x>>, x   *)
(* the float of the number, or <<>> for null.                              *)

None == <<>>

Str(s) == <<s>>

\* Python truth of an optional string: None and "" are false
Truthy(v) == v # None /\ v # Str("")

\* dict.get(key, default)
Get(d, key, default) == IF key \in DOMAIN d THEN d[key] ELSE default

\* the text of a non-negative int with at least two digits
Digits2(n) == IF n < 10 THEN "0" \o ToString(n) ELSE ToString(n)

\* f"{x:.2f}" as text pieces
Fixed2(x) ==
    LET f == Fmt(x, 100)
    IN  <<IF f.neg THEN "-" ELSE "", ToString(f.n \div 100), ".", Digits2(f.n % 100)>>

\* f"{x:.1f}" as text pieces
Fixed1(x) ==
    LET f == Fmt(x, 10)
    IN  <<IF f.neg THEN "-" ELSE "", ToString(f.n \div 10), ".", ToString(f.n % 10)>>

\* ', '.join(parts)
RECURSIVE JoinComma(_)
JoinComma(parts) ==
    IF Len(parts) = 0 THEN <<>>
    ELSE IF Len(parts) = 1 THEN parts
    ELSE <<parts[1], ", ">> \o JoinComma(Tail(parts))

-----------------------------------------------------------------------------
(* src/Milestone 2/main.py: validation                                     *)

\* 0.03, 30 and 100 as the floats the literals denote
Tolerance == FFromCents(3)

MaxRate == FFromInt(30)

Hundred == FFromInt(100)

\* lines 150-158: results['math']
MathRule(data) ==
    LET sub        == data.subtotal
        tax        == data.tax
        total      == data.total
        calc_total == FAdd(sub, tax)
    IN  IF FLe(FAbs(FSub(calc_total, total)), Tolerance)
        THEN <<TRUE, <<"Pass: ">> \o Fixed2(sub) \o <<" + ">> \o Fixed2(tax)
                     \o <<" = ">> \o Fixed2(total)>>
        ELSE <<FALSE, <<"Fail: ">> \o Fixed2(sub) \o <<" + ">> \o Fixed2(tax)
                      \o <<" != ">> \o Fixed2(total)>>

\* lines 160-163: results['dup']
DupRule(is_dup_bool) ==
    IF ~is_dup_bool
    THEN <<TRUE, <<"No duplicate found">> >>
    ELSE <<FALSE, <<"Potential duplicate entry detected in DB.">> >>

\* lines 165-172: results['tax_rate']
TaxRateRule(data) ==
    LET sub  == data.subtotal
        tax  == data.tax
        rate == FMul(FDiv(tax, sub), Hundred)
    IN  IF FLt(FZero, sub)
        THEN IF FLe(FZero, rate) /\ FLe(rate, MaxRate)
             THEN <<TRUE, <<"Tax Rate: ">> \o Fixed1(rate) \o <<"% (Normal)">> >>
             ELSE <<FALSE, <<"Suspicious Tax Rate: ">> \o Fixed1(rate) \o <<"%">> >>
        ELSE <<TRUE, <<"N/A">> >>

\* lines 174-182 with the merchant test appended last instead of first
FieldsRuleMerchantLast(data) ==
    LET missing ==
            (IF ~Truthy(data.date) THEN <<"Date">> ELSE <<>>)
            \o (IF data.total = FZero THEN <<"Total">> ELSE <<>>)
            \o (IF data.merchant = Str("Unknown") THEN <<"Merchant">> ELSE <<>>)
    IN  IF missing = <<>>
        THEN <<TRUE, <<"All required fields present">> >>
        ELSE <<FALSE, <<"Missing: ">> \o JoinComma(missing)>>

\* lines 174-182: results['fields']
FieldsRule(data) ==
    LET missing ==
            (IF data.merchant = Str("Unknown") THEN <<"Merchant">> ELSE <<>>)
            \o (IF ~Truthy(data.date) THEN <<"Date">> ELSE <<>>)
            \o (IF data.total = FZero THEN <<"Total">> ELSE <<>>)
    IN  IF missing = <<>>
        THEN <<TRUE, <<"All required fields present">> >>
        ELSE <<FALSE, <<"Missing: ">> \o JoinComma(missing)>>

\* validate_receipt(data, is_dup_bool): the results dict; every entry is a
\* pair <<passed, message>>, the message a sequence of text pieces
validate_receipt(data, is_dup_bool) ==
    [math     |-> MathRule(data),
     dup      |-> DupRule(is_dup_bool),
     tax_rate |-> TaxRateRule(data),
     fields   |-> FieldsRule(data)]

-----------------------------------------------------------------------------
(* State.  The two programs keep the same kind of state and are modelled   *)
(* over the same variables, each under its own specification.              *)

VARIABLES
    receipts,           \* table receipts: a set of rows
    line_items,         \* table line_items: a set of rows
    sqlite_sequence,    \* AUTOINCREMENT: the largest rowid ever given, per table
    current_receipt,    \* st.session_state['current_receipt']: None or <<dict>>
    current_line_items, \* st.session_state['current_line_items']
    validation_status,  \* st.session_state['validation_status']: None or <<dict>>
    today,              \* the day datetime.now() falls in
    last                \* what the last run of the script did and showed

vars == <<receipts, line_items, sqlite_sequence, current_receipt,
          current_line_items, validation_status, today, last>>

store == <<receipts, line_items, sqlite_sequence>>

session == <<current_receipt, current_line_items, validation_status>>

\* uploads a run of the model makes
MaxUploads == 2

\* the days the clock passes through
Days == <<"2024-01-15", "2024-01-16">>

Day(n) == Days[n]

-----------------------------------------------------------------------------
(* src/Milestone 2/main.py: the store                                      *)

\* SQL "a = b": never true of NULL
SqlEq(a, b) == a # None /\ b # None /\ a = b

\* lines 46-47 and 53-56 without lines 49-51: the invoice number never joins
\* the WHERE clause
check_if_receipt_exists_without_invoice(rows, merchant, date, total, invoice_num) ==
    LET params == <<merchant, date, <<total>> >>
        query  == <<"merchant", "date", "total_amount">>
        data   == {r \in rows : \A i \in 1..Len(query) : SqlEq(r[query[i]], params[i])}
    IN  <<Cardinality(data) > 0, Cardinality(data)>>

\* lines 46-56 without the condition of line 49: the invoice number always
\* joins the WHERE clause
check_if_receipt_exists_always_invoice(rows, merchant, date, total, invoice_num) ==
    LET params == <<merchant, date, <<total>>, invoice_num>>
        query  == <<"merchant", "date", "total_amount", "invoice_number">>
        data   == {r \in rows : \A i \in 1..Len(query) : SqlEq(r[query[i]], params[i])}
    IN  <<Cardinality(data) > 0, Cardinality(data)>>

\* check_if_receipt_exists(merchant, date, total, invoice_num) against the
\* table rows: the WHERE clause is built, then run
check_if_receipt_exists(rows, merchant, date, total, invoice_num) ==
    LET params == <<merchant, date, <<total>> >>
        query  == <<"merchant", "date", "total_amount">>
        more   == Truthy(invoice_num) /\ invoice_num # Str("Unknown")
        query2 == IF more THEN Append(query, "invoice_number") ELSE query
        params2 == IF more THEN Append(params, invoice_num) ELSE params
        data   == {r \in rows : \A i \in 1..Len(query2) : SqlEq(r[query2[i]], params2[i])}
    IN  <<Cardinality(data) > 0, Cardinality(data)>>

\* item['name'], item['qty'], item['price'] raise KeyError on a missing key
ItemComplete(item) == {"name", "qty", "price"} \subseteq DOMAIN item

\* the loop of INSERTs of save_receipt_to_db, from item i on: the rows added
\* to the open transaction, and whether an INSERT raised
RECURSIVE InsertItems(_, _, _, _)
InsertItems(items, i, receipt_id, first_id) ==
    IF i > Len(items) THEN [rows |-> {}, raised |-> FALSE]
    ELSE IF ~ItemComplete(items[i]) THEN [rows |-> {}, raised |-> TRUE]
    ELSE LET rest == InsertItems(items, i + 1, receipt_id, first_id)
         IN  [rows |-> {[id |-> first_id + i, receipt_id |-> receipt_id,
                         name |-> items[i].name, qty |-> items[i].qty,
                         price |-> items[i].price]} \cup rest.rows,
              raised |-> rest.raised]

\* lines 59-75 with a conn.commit() after every INSERT: an exception leaves
\* the rows inserted before it
save_receipt_to_db_commit_each(db, data, filename, line_items_data, upload_time) ==
    LET receipt_id == db.sqlite_sequence.receipts + 1
        row   == [id |-> receipt_id, merchant |-> data.merchant, date |-> data.date,
                  invoice_number |-> data.invoice_number,
                  subtotal |-> <<data.subtotal>>, tax |-> <<data.tax>>,
                  total_amount |-> <<data.total>>, filename |-> Str(filename),
                  upload_timestamp |-> Str(upload_time)]
        items == InsertItems(line_items_data, 1, receipt_id, db.sqlite_sequence.line_items)
    IN  [raised |-> items.raised,
         db |-> [receipts |-> db.receipts \cup {row},
                 line_items |-> db.line_items \cup items.rows,
                 sqlite_sequence |->
                     [receipts |-> receipt_id,
                      line_items |-> db.sqlite_sequence.line_items
                                     + Cardinality(items.rows)]],
         receipt_id |-> IF items.raised THEN 0 ELSE receipt_id]

\* save_receipt_to_db(data, filename, line_items_data) on a store db: the
\* store it leaves and the id it returns.  An exception before conn.commit()
\* leaves the transaction uncommitted; the connection is dropped with it and
\* nothing of it reaches the tables.
save_receipt_to_db(db, data, filename, line_items_data, upload_time) ==
    LET receipt_id == db.sqlite_sequence.receipts + 1
        row   == [id |-> receipt_id, merchant |-> data.merchant, date |-> data.date,
                  invoice_number |-> data.invoice_number,
                  subtotal |-> <<data.subtotal>>, tax |-> <<data.tax>>,
                  total_amount |-> <<data.total>>, filename |-> Str(filename),
                  upload_timestamp |-> Str(upload_time)]
        items == InsertItems(line_items_data, 1, receipt_id, db.sqlite_sequence.line_items)
    IN  IF items.raised
        THEN [raised |-> TRUE, db |-> db, receipt_id |-> 0]
        ELSE [raised |-> FALSE,
              db |-> [receipts |-> db.receipts \cup {row},
                      line_items |-> db.line_items \cup items.rows,
                      sqlite_sequence |->
                          [receipts |-> receipt_id,
                           line_items |-> db.sqlite_sequence.line_items
                                          + Len(line_items_data)]],
              receipt_id |-> receipt_id]

\* get_line_items(receipt_id)
get_line_items(rows, receipt_id) == {r \in rows : r.receipt_id = receipt_id}

\* delete_receipt(receipt_id)
delete_receipt(db, receipt_id) ==
    [db EXCEPT !.line_items = {r \in db.line_items : r.receipt_id # receipt_id},
               !.receipts = {r \in db.receipts : r.id # receipt_id}]

\* clear_database(): DELETE FROM both tables; the AUTOINCREMENT counters stay
clear_database(db) == [db EXCEPT !.line_items = {}, !.receipts = {}]

-----------------------------------------------------------------------------
(* src/Milestone 2/main.py: the structured-extraction service and main()   *)

Coffee == [name |-> Str("Coffee"), qty |-> <<2>>, price |-> <<FFromCents(400)>>]

Bagel == [name |-> Str("Bagel"), qty |-> <<1>>, price |-> <<FFromCents(200)>>]

\* an item the service returned without qty and price
Nameless == [name |-> Str("Tea")]

Acme == [merchant |-> Str("Acme"), date |-> Str(Day(1)),
         subtotal |-> <<FFromCents(1000)>>, tax |-> <<FFromCents(80)>>,
         total |-> <<FFromCents(1083)>>, line_items |-> <<Coffee, Bagel>>]

\* The JSON objects the service answers with, as json.loads returns them: a
\* dict; a JSON number is a Python float (float() of it is the same float).
ServiceObjects ==
    { Acme,
      [Acme EXCEPT !.line_items = <<Coffee>>] @@ [invoice_number |-> Str("INV-1")],
      Acme @@ [invoice_number |-> Str("INV-2")],
      <<>>,
      [merchant |-> Str("Acme"), total |-> None],
      [merchant |-> None, date |-> Str(Day(1)), invoice_number |-> None,
       subtotal |-> <<FFromCents(1000)>>, tax |-> <<FFromCents(80)>>,
       total |-> <<FFromCents(1083)>>],
      [subtotal |-> <<FFromCents(410)>>, tax |-> <<FFromCents(123)>>,
       total |-> <<FFromCents(533)>>, line_items |-> <<Coffee, Nameless>>],
      [merchant |-> Str("Unknown"), date |-> Str("")] }

\* What the call of the service comes to: the request raises, the content is
\* not JSON, or the content is a JSON object.
ServiceReplies ==
    {[kind |-> "request_error"], [kind |-> "bad_json"]}
    \cup {[kind |-> "json", object |-> o] : o \in ServiceObjects}

\* lines 136-145 with an except branch that returns a made-up record
parse_with_groq_made_up(reply) ==
    IF reply.kind = "json" THEN <<reply.object>> ELSE <<Acme>>

\* parse_with_groq(raw_text, api_key): the dict, or None when the request or
\* json.loads raised
parse_with_groq(reply) ==
    IF reply.kind = "json" THEN <<reply.object>> ELSE None

\* float(v) raises TypeError on None
FloatRaises(v) == v = None

\* lines 243-250: the receipt_data dict of main()
ReceiptData(structured_data, now) ==
    [merchant       |-> Get(structured_data, "merchant", Str("Unknown")),
     date           |-> Get(structured_data, "date", Str(now)),
     invoice_number |-> Get(structured_data, "invoice_number", Str("Unknown")),
     subtotal       |-> Get(structured_data, "subtotal", <<FZero>>)[1],
     tax            |-> Get(structured_data, "tax", <<FZero>>)[1],
     total          |-> Get(structured_data, "total", <<FZero>>)[1]]

\* validate_receipt is a function of its arguments alone: its results on the
\* receipts the service objects give are computed once
ServiceReceipts ==
    {ReceiptData(o, Days[n]) : n \in 1..Len(Days),
         o \in {p \in ServiceObjects :
                    /\ p # <<>>
                    /\ \A k \in {"subtotal", "tax", "total"} :
                           ~FloatRaises(Get(p, k, <<FZero>>))}}

ServiceVerdicts ==
    {<<r, d, validate_receipt(r, d)>> : r \in ServiceReceipts, d \in BOOLEAN}

Validated(data, is_dup_bool) ==
    (CHOOSE t \in ServiceVerdicts : t[1] = data /\ t[2] = is_dup_bool)[3]

Database == [receipts |-> receipts, line_items |-> line_items,
             sqlite_sequence |-> sqlite_sequence]

SetDatabase(db) ==
    /\ receipts' = db.receipts
    /\ line_items' = db.line_items
    /\ sqlite_sequence' = db.sqlite_sequence

\* sqlite3 raising inside a store call (the database is locked, the disk
\* fails, a value of the service that is a JSON list or object cannot be bound)
StoreFaults == {"none", "lookup", "save"}

\* "Extract & Process" pressed with no API key entered
ExtractWithoutKey ==
    /\ last' = [op |-> "upload", stage |-> "no_key", kind |-> "none",
                structured_data |-> None, receipt_id |-> 0]
    /\ UNCHANGED <<store, session, today>>

\* "Extract & Process" pressed: lines 238-272 of main()
ExtractAndProcess(reply, fault) ==
    LET structured_data == parse_with_groq(reply)
        obj          == structured_data[1]
        receipt_data == ReceiptData(obj, today)
        items        == Get(obj, "line_items", <<>>)
        is_dup       == check_if_receipt_exists(receipts, receipt_data.merchant,
                            receipt_data.date, receipt_data.total,
                            receipt_data.invoice_number)[1]
        val_results  == Validated(receipt_data, is_dup)
        saved        == save_receipt_to_db(Database, receipt_data, "receipt.png",
                                           items, today)
        Shown(stage, id) ==
            last' = [op |-> "upload", stage |-> stage, kind |-> reply.kind,
                     structured_data |-> structured_data, receipt_id |-> id]
    IN
    /\ sqlite_sequence.receipts < MaxUploads
    /\ IF structured_data = None \/ structured_data[1] = <<>>
       THEN \* "AI could not parse the receipt."
            /\ Shown("could_not_parse", 0)
            /\ UNCHANGED <<store, session>>
       ELSE IF \E k \in {"subtotal", "tax", "total"} : FloatRaises(Get(obj, k, <<FZero>>))
       THEN /\ Shown("float_raised", 0)
            /\ UNCHANGED <<store, session>>
       ELSE /\ current_receipt' = <<receipt_data>>
            /\ current_line_items' = items
            /\ IF fault = "lookup"
               THEN /\ Shown("lookup_raised", 0)
                    /\ UNCHANGED <<store, validation_status>>
               ELSE /\ validation_status' = <<val_results>>
                    /\ IF fault = "save"
                       THEN /\ Shown("save_raised", 0)
                            /\ UNCHANGED store
                       ELSE IF saved.raised
                       THEN /\ Shown("save_raised", 0)
                            /\ SetDatabase(saved.db)
                       ELSE /\ Shown("saved", saved.receipt_id)
                            /\ SetDatabase(saved.db)
    /\ UNCHANGED today

\* sidebar "Clear Database"
ClearDatabase ==
    /\ SetDatabase(clear_database(Database))
    /\ last' = [op |-> "clear", stage |-> "done", kind |-> "none",
                structured_data |-> None, receipt_id |-> 0]
    /\ UNCHANGED <<session, today>>

\* "Delete Bill ID: n" in the history tab, n being a row of get_all_receipts()
DeleteBill(selected_id) ==
    /\ SetDatabase(delete_receipt(Database, selected_id))
    /\ last' = [op |-> "delete", stage |-> "done", kind |-> "none",
                structured_data |-> None, receipt_id |-> selected_id]
    /\ UNCHANGED <<session, today>>

\* midnight passes
Midnight ==
    /\ \E n \in 1..(Len(Days) - 1) : today = Day(n) /\ today' = Day(n + 1)
    /\ UNCHANGED <<store, session, last>>

NoRun == [op |-> "start", stage |-> "done", kind |-> "none",
          structured_data |-> None, receipt_id |-> 0]

InitM2 ==
    /\ receipts = {}
    /\ line_items = {}
    /\ sqlite_sequence = [receipts |-> 0, line_items |-> 0]
    /\ current_receipt = None
    /\ current_line_items = <<>>
    /\ validation_status = None
    /\ today = Day(1)
    /\ last = NoRun

NextM2 ==
    \/ ExtractWithoutKey
    \/ \E reply \in ServiceReplies, fault \in StoreFaults : ExtractAndProcess(reply, fault)
    \/ ClearDatabase
    \/ \E r \in receipts : DeleteBill(r.id)
    \/ Midnight

SpecM2 == InitM2 /\ [][NextM2]_vars

-----------------------------------------------------------------------------
(* src/app.py: text.  A str is the sequence of its characters.             *)

\* Operators below take each argument that is costly to compute through
\* Value1..Value4, which compute it once.
Value3(F(_, _, _), a, b, c) ==
    CHOOSE r \in {F(u, v, w) : u \in {a}, v \in {b}, w \in {c}} : TRUE

Value4(F(_, _, _, _), a, b, c, d) ==
    CHOOSE r \in {F(u, v, w, x) : u \in {a}, v \in {b}, w \in {c}, x \in {d}} : TRUE

SetMin(S) == LET Of(T) == CHOOSE x \in T : \A y \in T : x <= y IN Value1(Of, S)

SetMax(S) == LET Of(T) == CHOOSE x \in T : \A y \in T : x >= y IN Value1(Of, S)

Digit == <<"0", "1", "2", "3", "4", "5", "6", "7", "8", "9">>

UpperCase == <<"A", "B", "C", "D", "E", "F", "G", "H", "I", "J", "K", "L", "M",
               "N", "O", "P", "Q", "R", "S", "T", "U", "V", "W", "X", "Y", "Z">>

LowerCase == <<"a", "b", "c", "d", "e", "f", "g", "h", "i", "j", "k", "l", "m",
               "n", "o", "p", "q", "r", "s", "t", "u", "v", "w", "x", "y", "z">>

\* \d
IsDigit(c) == \E i \in 1..10 : Digit[i] = c

\* \s
IsSpace(c) == c \in {" ", "\n", "\t"}

\* [\s:$]
IsSep(c) == IsSpace(c) \/ c \in {":", "$"}

\* [\d,]
IsAmountChar(c) == IsDigit(c) \/ c = ","

\* [\s$]
IsSpaceOrDollar(c) == IsSpace(c) \/ c = "$"

\* [/-]
IsDateSep(c) == c \in {"/", "-"}

NotNewline(c) == c # "\n"

\* str.lower() of one character; (?i) compares characters by it
lower(c) ==
    IF \E i \in 1..26 : UpperCase[i] = c
    THEN LowerCase[CHOOSE i \in 1..26 : UpperCase[i] = c]
    ELSE c

\* a greedy run of a character class from index p: the index after it
RunEnd(t, p, InClass(_)) ==
    LET From(p0) ==
            CHOOSE q \in p0..(Len(t) + 1) :
                /\ q = Len(t) + 1 \/ ~InClass(t[q])
                /\ \A k \in p0..(q - 1) : InClass(t[k])
    IN  Value1(From, p)

\* line.strip()
strip(s) ==
    LET Kept(u, keep) ==
            IF keep = {} THEN <<>> ELSE SubSeq(u, SetMin(keep), SetMax(keep))
        Of(u) == Value2(Kept, u, {i \in 1..Len(u) : ~IsSpace(u[i])})
    IN  Value1(Of, s)

\* text.split('\n')
split(t) ==
    LET Piece(from) == SubSeq(t, from, RunEnd(t, from, NotNewline) - 1)
        Pieces(starts) ==
            [k \in 1..Cardinality(starts) |->
                Value1(Piece, CHOOSE s \in starts :
                                  Cardinality({u \in starts : u < s}) = k - 1)]
    IN  Value1(Pieces, {1} \cup {i + 1 : i \in {j \in 1..Len(t) : t[j] = "\n"}})

\* the number the digits s[from..to] write; no digit counts 0, as the integer
\* part of float(".50") does
RECURSIVE Number(_, _, _)
Number(s, from, to) ==
    IF to < from THEN 0
    ELSE 10 * Number(s, from, to - 1) + (CHOOSE i \in 1..10 : Digit[i] = s[to]) - 1

\* int(s) of a string of digits
int(s) == LET Of(u) == Number(u, 1, Len(u)) IN Value1(Of, s)

\* s.replace(',', '')
replace_commas(s) == LET kept(c) == c # "," IN SelectSeq(s, kept)

\* the hundredths a string [digits].dd counts
Hundredths(s) ==
    LET Of(u) == 100 * Number(u, 1, Len(u) - 3) + Number(u, Len(u) - 1, Len(u))
    IN  Value1(Of, s)

\* a literal word w (given in lower case) at index p, case ignored: the index
\* after it, or 0
WordEnd(t, p, w) ==
    LET At(p0) ==
            IF /\ p0 + Len(w) - 1 <= Len(t)
               /\ \A i \in 1..Len(w) : lower(t[p0 + i - 1]) = w[i]
            THEN p0 + Len(w)
            ELSE 0
    IN  Value1(At, p)

\* x in s.lower()
Contains(s, w) == \E p \in 1..Len(s) : WordEnd(s, p, w) # 0

\* ([\d,]+\.\d{2}) at index p: the index after it, or 0
AmountEnd(t, p) ==
    LET End(p0, e) ==
            IF /\ e > p0
               /\ e + 2 <= Len(t)
               /\ t[e] = "."
               /\ IsDigit(t[e + 1])
               /\ IsDigit(t[e + 2])
            THEN e + 3
            ELSE 0
        At(p0) == Value2(End, p0, RunEnd(t, p0, IsAmountChar))
    IN  Value1(At, p)

\* float(s) of a string [digits].dd: the double nearest to the decimal number
float(s) == FDecimal(Hundredths(s))

-----------------------------------------------------------------------------
(* src/app.py: parse_receipt_data and parse_line_items_data                *)

\* "Unknown"
Unknown == <<"U", "n", "k", "n", "o", "w", "n">>

\* the words of the patterns and of the skip list, in lower case
Kw ==
    [total       |-> <<"t", "o", "t", "a", "l">>,
     amount      |-> <<"a", "m", "o", "u", "n", "t">>,
     due         |-> <<"d", "u", "e">>,
     balance     |-> <<"b", "a", "l", "a", "n", "c", "e">>,
     grand_total |-> <<"g", "r", "a", "n", "d", " ", "t", "o", "t", "a", "l">>,
     tax         |-> <<"t", "a", "x">>,
     vat         |-> <<"v", "a", "t">>,
     gst         |-> <<"g", "s", "t">>,
     sales       |-> <<"s", "a", "l", "e", "s">>,
     visa        |-> <<"v", "i", "s", "a">>,
     mastercard  |-> <<"m", "a", "s", "t", "e", "r", "c", "a", "r", "d">>,
     cash        |-> <<"c", "a", "s", "h">>,
     change      |-> <<"c", "h", "a", "n", "g", "e">>]

\* (?:Total|Amount|Due|Balance|Grand Total), in the order the pattern tries
\* the alternatives
TotalKeywords == <<Kw.total, Kw.amount, Kw.due, Kw.balance, Kw.grand_total>>

\* Sales\s*Tax at index p: the index after it, or 0
SalesTaxEnd(t, p) ==
    LET Second(e) == IF e = 0 THEN 0 ELSE WordEnd(t, RunEnd(t, e, IsSpace), Kw.tax)
    IN  Value1(Second, WordEnd(t, p, Kw.sales))

\* alternative i of (?:Tax|VAT|GST|Sales\s*Tax) at index p: the index after
\* it, or 0
TaxKeywordEnd(t, p, i) ==
    CASE i = 1 -> WordEnd(t, p, Kw.tax)
      [] i = 2 -> WordEnd(t, p, Kw.vat)
      [] i = 3 -> WordEnd(t, p, Kw.gst)
      [] i = 4 -> SalesTaxEnd(t, p)

\* alternative i of the keyword group of a pattern, "total" or "tax", at
\* index p: the index after it, or 0; and the number of alternatives
KeywordEnd(t, p, keyword, i) ==
    IF keyword = "total" THEN WordEnd(t, p, TotalKeywords[i]) ELSE TaxKeywordEnd(t, p, i)

Alternatives(keyword) == IF keyword = "total" THEN Len(TotalKeywords) ELSE 4

\* [\s:$]*([\d,]+\.\d{2}) after a keyword that ends before index e (0: no
\* keyword): <<[group, end]>>, or <<>> if it does not match.  The classes
\* [\s:$] and [\d,] share no character and "." is in neither, so each greedy
\* run matches in full or the match fails.
GroupAfter(t, e) ==
    LET Found(from, end) ==
            IF end = 0 THEN <<>>
            ELSE <<[group |-> SubSeq(t, from, end - 1), end |-> end]>>
        Amount(from) == Value2(Found, from, AmountEnd(t, from))
        After(e0) == IF e0 = 0 THEN <<>> ELSE Value1(Amount, RunEnd(t, e0, IsSep))
    IN  Value1(After, e)

\* (?i)(?:...)[\s:$]*([\d,]+\.\d{2}) at index p: <<[group, end]>> of the
\* first alternative that matches, <<>> if none does
PatternAt(t, p, keyword) ==
    LET Match(i) == GroupAfter(t, KeywordEnd(t, p, keyword, i))
        First(matching) == IF matching = {} THEN <<>> ELSE Match(SetMin(matching))
    IN  Value1(First, {i \in 1..Alternatives(keyword) : Match(i) # <<>>})

\* the leftmost match of the pattern from index pos on: <<[group, end]>>, or
\* <<>>
NextMatch(t, pos, keyword) ==
    LET First(starts) ==
            IF starts = {} THEN <<>> ELSE PatternAt(t, SetMin(starts), keyword)
    IN  Value1(First, {p \in pos..Len(t) : PatternAt(t, p, keyword) # <<>>})

\* re.findall(pattern, text) from index pos on: the groups of the matches,
\* leftmost first, none overlapping
RECURSIVE findall(_, _, _)
findall(t, pos, keyword) ==
    LET Rest(m) ==
            IF m = <<>> THEN <<>>
            ELSE <<m[1].group>> \o findall(t, m[1].end, keyword)
    IN  Value1(Rest, NextMatch(t, pos, keyword))

\* the digits from index p on
Digits(t, p) == RunEnd(t, p, IsDigit) - p

\* \d{1,2}[/-]\d{1,2}[/-]\d{2,4} at index p: the index after it, or 0
DateDayFirstEnd(t, p) ==
    LET Third(r, n3) == IF n3 >= 2 THEN r + Min(n3, 4) ELSE 0
        Second(q, n2) ==
            IF n2 \in 1..2 /\ q + n2 <= Len(t) /\ IsDateSep(t[q + n2])
            THEN Value2(Third, q + n2 + 1, Digits(t, q + n2 + 1))
            ELSE 0
        First(p0, n1) ==
            IF n1 \in 1..2 /\ p0 + n1 <= Len(t) /\ IsDateSep(t[p0 + n1])
            THEN Value2(Second, p0 + n1 + 1, Digits(t, p0 + n1 + 1))
            ELSE 0
    IN  Value2(First, p, Digits(t, p))

\* \d{4}[/-]\d{1,2}[/-]\d{1,2} at index p: the index after it, or 0
DateYearFirstEnd(t, p) ==
    LET Third(r, n3) == IF n3 >= 1 THEN r + Min(n3, 2) ELSE 0
        Second(q, n2) ==
            IF n2 \in 1..2 /\ q + n2 <= Len(t) /\ IsDateSep(t[q + n2])
            THEN Value2(Third, q + n2 + 1, Digits(t, q + n2 + 1))
            ELSE 0
        First(p0, n1) ==
            IF n1 = 4 /\ p0 + 4 <= Len(t) /\ IsDateSep(t[p0 + 4])
            THEN Value2(Second, p0 + 5, Digits(t, p0 + 5))
            ELSE 0
    IN  Value2(First, p, Digits(t, p))

\* the date pattern at index p: the first alternative that matches
DateEnd(t, p) ==
    LET Or(day_first) == IF day_first # 0 THEN day_first ELSE DateYearFirstEnd(t, p)
    IN  Value1(Or, DateDayFirstEnd(t, p))

\* re.search of the date pattern: <<group(0)>> of the leftmost match, or <<>>
date_match(t) ==
    LET Group(p0) == SubSeq(t, p0, DateEnd(t, p0) - 1)
        First(starts) == IF starts = {} THEN <<>> ELSE <<Value1(Group, SetMin(starts))>>
    IN  Value1(First, {p \in 1..Len(t) : DateEnd(t, p) # 0})

\* line 141 taking the last tax found, as its comment allows, instead of the
\* largest
max_last(taxes) == taxes[Len(taxes)]

\* max(taxes): the first largest
max(taxes) ==
    LET Of(s) == s[SetMin({i \in 1..Len(s) : \A j \in 1..Len(s) : ~FLt(s[i], s[j])})]
    IN  Value1(Of, taxes)

\* the non-empty stripped lines of the text
StrippedLines(text) ==
    LET nonempty(l) == l # <<>>
        Of(pieces)  == SelectSeq([k \in 1..Len(pieces) |-> strip(pieces[k])], nonempty)
    IN  Value1(Of, split(text))

\* float(t.replace(',', '')) of every match
Floats(matches) ==
    LET Of(s) == [k \in 1..Len(s) |-> float(replace_commas(s[k]))]
    IN  Value1(Of, matches)

\* parse_receipt_data with amount_match[0] for amount_match[-1] in line 129
parse_receipt_data_first_amount(text, now) ==
    LET Data(lines, date, amounts, taxes) ==
            [merchant |-> IF lines # <<>> THEN lines[1] ELSE Unknown,
             date     |-> IF date # <<>> THEN date[1] ELSE now,
             total    |-> IF amounts # <<>> THEN amounts[1] ELSE FZero,
             tax      |-> IF taxes # <<>> THEN max(taxes) ELSE FZero]
        Of(t) == Value4(Data, StrippedLines(t), date_match(t),
                        Floats(findall(t, 1, "total")), Floats(findall(t, 1, "tax")))
    IN  Value1(Of, text)

\* parse_receipt_data(text), datetime.now() falling in the day now
parse_receipt_data(text, now) ==
    LET Data(lines, date, amounts, taxes) ==
            [merchant |-> IF lines # <<>> THEN lines[1] ELSE Unknown,
             date     |-> IF date # <<>> THEN date[1] ELSE now,
             total    |-> IF amounts # <<>> THEN amounts[Len(amounts)] ELSE FZero,
             tax      |-> IF taxes # <<>> THEN max(taxes) ELSE FZero]
        Of(t) == Value4(Data, StrippedLines(t), date_match(t),
                        Floats(findall(t, 1, "total")), Floats(findall(t, 1, "tax")))
    IN  Value1(Of, text)

\* re.search(price_pattern, line) with price_pattern [\s$]([\d,]+\.\d{2})\s*$:
\* the index the leftmost match starts at, or 0
price_match(line) ==
    LET Ends(p, e) == e # 0 /\ RunEnd(line, e, IsSpace) = Len(line) + 1
        First(starts) == IF starts = {} THEN 0 ELSE SetMin(starts)
    IN  Value1(First, {p \in 1..Len(line) :
                          /\ IsSpaceOrDollar(line[p])
                          /\ Value2(Ends, p, AmountEnd(line, p + 1))})

\* re.match(r'^(\d+)\s*[xX]\s*', name_part): <<[digits, end]>>, end the index
\* after the match, or <<>>
qty_match(name_part) ==
    LET Found(d, x) ==
            IF d > 1 /\ x <= Len(name_part) /\ name_part[x] \in {"x", "X"}
            THEN <<[digits |-> SubSeq(name_part, 1, d - 1),
                    end    |-> RunEnd(name_part, x + 1, IsSpace)]>>
            ELSE <<>>
        After(d) == Value2(Found, d, RunEnd(name_part, d, IsSpace))
    IN  Value1(After, RunEnd(name_part, 1, IsDigit))

\* the list of line 162 without 'visa'
Skipped_without_visa ==
    {Kw.total, Kw.amount, Kw.due, Kw.mastercard, Kw.cash, Kw.change, Kw.tax}

\* the words that mark a line as no item
Skipped == {Kw.total, Kw.amount, Kw.due, Kw.visa, Kw.mastercard, Kw.cash, Kw.change, Kw.tax}

\* the body of the loop of parse_line_items_data for one line of the text:
\* <<item>> if the line appends an item, <<>> if it does not.  float() of a
\* price the pattern matched never raises ValueError.
LineItem(raw_line) ==
    LET Item(name, qty, price) ==
            IF name = <<>> THEN <<>>
            ELSE <<[name |-> name, qty |-> qty, price |-> price]>>
        Named(name_part, qm, price) ==
            IF \E w \in Skipped : Contains(name_part, w) THEN <<>>
            ELSE IF qm # <<>>
            THEN Value3(Item, strip(SubSeq(name_part, qm[1].end, Len(name_part))),
                        int(qm[1].digits), price)
            ELSE Item(name_part, 1, price)
        Priced(line, p, name_part) ==
            IF p = 0 THEN <<>>
            ELSE Value3(Named, name_part, qty_match(name_part),
                        float(replace_commas(SubSeq(line, p + 1, AmountEnd(line, p + 1) - 1))))
        Matched(line, p) ==
            IF p = 0 THEN <<>>
            ELSE Value3(Priced, line, p, strip(SubSeq(line, 1, p - 1)))
        Of(line) == Value2(Matched, line, price_match(line))
    IN  Value1(Of, strip(raw_line))

\* parse_line_items_data(text)
parse_line_items_data(text) ==
    LET some(i) == i # <<>>
        Items(kept) == [k \in 1..Len(kept) |-> kept[k][1]]
        Of(pieces) ==
            Value1(Items, SelectSeq([k \in 1..Len(pieces) |-> LineItem(pieces[k])], some))
    IN  Value1(Of, split(text))

-----------------------------------------------------------------------------
(* src/app.py: the text extract_text returns.  A text is built of the      *)
(* lines below, one "\n" between two of them.  Beside its characters a     *)
(* line records what it reads as: a "Total" with its amount ("total"),     *)
(* another keyword of the total pattern with an amount ("keyword"), such   *)
(* a keyword alone ("word"), an amount alone ("amount"), a tax keyword     *)
(* with its amount ("tax"), an item, a date, or none of these; cents is    *)
(* the amount in hundredths.                                               *)

Lines ==
    <<
      \* 1: Shop
      [chars |-> <<"S", "h", "o", "p">>,
       kind |-> "other", cents |-> 0],
      \* 2: Total: 8.64
      [chars |-> <<"T", "o", "t", "a", "l", ":", " ", "8", ".", "6", "4">>,
       kind |-> "total", cents |-> 864],
      \* 3: Total: 10.10
      [chars |-> <<"T", "o", "t", "a", "l", ":", " ", "1", "0", ".", "1", "0">>,
       kind |-> "total", cents |-> 1010],
      \* 4: TOTAL $1,234.50
      [chars |-> <<"T", "O", "T", "A", "L", " ", "$", "1", ",", "2", "3", "4", ".", "5", "0">>,
       kind |-> "total", cents |-> 123450],
      \* 5: Subtotal: 8.00
      [chars |-> <<"S", "u", "b", "t", "o", "t", "a", "l", ":", " ", "8", ".", "0", "0">>,
       kind |-> "keyword", cents |-> 800],
      \* 6: Amount Due: 5.00
      [chars |-> <<"A", "m", "o", "u", "n", "t", " ", "D", "u", "e", ":", " ", "5", ".", "0", "0">>,
       kind |-> "keyword", cents |-> 500],
      \* 7: Balance
      [chars |-> <<"B", "a", "l", "a", "n", "c", "e">>,
       kind |-> "word", cents |-> 0],
      \* 8: 0.20
      [chars |-> <<"0", ".", "2", "0">>,
       kind |-> "amount", cents |-> 20],
      \* 9: Tax 0.64
      [chars |-> <<"T", "a", "x", " ", "0", ".", "6", "4">>,
       kind |-> "tax", cents |-> 64],
      \* 10: VAT: 1.20
      [chars |-> <<"V", "A", "T", ":", " ", "1", ".", "2", "0">>,
       kind |-> "tax", cents |-> 120],
      \* 11: Sales Tax $0.80
      [chars |-> <<"S", "a", "l", "e", "s", " ", "T", "a", "x", " ", "$", "0", ".", "8", "0">>,
       kind |-> "tax", cents |-> 80],
      \* 12: Coffee 10.00
      [chars |-> <<"C", "o", "f", "f", "e", "e", " ", "1", "0", ".", "0", "0">>,
       kind |-> "item", cents |-> 1000],
      \* 13: 2 x Tea 4.00
      [chars |-> <<"2", " ", "x", " ", "T", "e", "a", " ", "4", ".", "0", "0">>,
       kind |-> "item", cents |-> 400],
      \* 14: 01/02/2024
      [chars |-> <<"0", "1", "/", "0", "2", "/", "2", "0", "2", "4">>,
       kind |-> "date", cents |-> 0] >>

\* lines a text of the parser's specification has at most
MaxLines == 3

\* the texts of at most n lines, each a sequence of indexes into Lines
TextsUpTo(n) == UNION {[1..k -> 1..Len(Lines)] : k \in 0..n}

\* the characters of a text
RECURSIVE TextUpTo(_, _)
TextUpTo(lines, n) ==
    IF n = 0 THEN <<>>
    ELSE IF n = 1 THEN Lines[lines[1]].chars
    ELSE TextUpTo(lines, n - 1) \o <<"\n">> \o Lines[lines[n]].chars

Text(lines) == TextUpTo(lines, Len(lines))

\* datetime.now().strftime("%Y-%m-%d") on each of Days
DayChars ==
    <<<<"2", "0", "2", "4", "-", "0", "1", "-", "1", "5">>,
      <<"2", "0", "2", "4", "-", "0", "1", "-", "1", "6">>>>

strftime(day) == DayChars[CHOOSE n \in 1..Len(Days) : Days[n] = day]

-----------------------------------------------------------------------------
(* parse_receipt_data and parse_line_items_data on their own: a text is    *)
(* drawn, then parsed.                                                     *)

InitParse ==
    /\ receipts = {}
    /\ line_items = {}
    /\ sqlite_sequence = [receipts |-> 0, line_items |-> 0]
    /\ current_receipt = None
    /\ current_line_items = <<>>
    /\ validation_status = None
    /\ today = Days[1]
    /\ \E lines \in TextsUpTo(MaxLines) : last = [op |-> "text", lines |-> lines]

Parse ==
    /\ last.op = "text"
    /\ last' = [op         |-> "parse",
                lines      |-> last.lines,
                data       |-> parse_receipt_data(Text(last.lines), strftime(today)),
                line_items |-> parse_line_items_data(Text(last.lines))]
    /\ UNCHANGED <<store, session, today>>

NextParse == Parse

SpecParse == InitParse /\ [][NextParse]_vars

-----------------------------------------------------------------------------
(* src/app.py: the store and main()                                        *)

\* lines 42-43 with tax_amount in the place of total_amount
app_check_if_receipt_exists_tax_column(rows, merchant, date, total) ==
    LET data == {r \in rows : /\ r.merchant = merchant
                              /\ r.date = date
                              /\ r.tax_amount = total}
    IN  data # {}

\* check_if_receipt_exists(merchant, date, total); no column it compares is
\* ever null in this program
app_check_if_receipt_exists(rows, merchant, date, total) ==
    LET data == {r \in rows : /\ r.merchant = merchant
                              /\ r.date = date
                              /\ r.total_amount = total}
    IN  data # {}

\* save_receipt_to_db(merchant, date, total, tax, filename, line_items_data)
\* on a store db: the store it leaves
app_save_receipt_to_db(db, merchant, date, total, tax, filename, line_items_data, upload_time) ==
    LET receipt_id == db.sqlite_sequence.receipts + 1
        row   == [id |-> receipt_id, merchant |-> merchant, date |-> date,
                  total_amount |-> total, tax_amount |-> tax,
                  filename |-> filename, upload_timestamp |-> upload_time]
        items == {[id |-> db.sqlite_sequence.line_items + i, receipt_id |-> receipt_id,
                   name |-> line_items_data[i].name, qty |-> line_items_data[i].qty,
                   price |-> line_items_data[i].price] : i \in 1..Len(line_items_data)}
    IN  [receipts |-> db.receipts \cup {row},
         line_items |-> db.line_items \cup items,
         sqlite_sequence |-> [receipts |-> receipt_id,
                              line_items |-> db.sqlite_sequence.line_items
                                             + Len(line_items_data)]]

\* get_detailed_bill_data(receipt_id): the joined rows, in rowid order
get_detailed_bill_data(db, receipt_id) ==
    LET Row(l) == [Quantity |-> l.qty, UnitPrice |-> l.price, ItemName |-> l.name]
        Frame(joined) ==
            [k \in 1..Cardinality(joined) |->
                Value1(Row, CHOOSE l \in joined :
                                Cardinality({m \in joined : m.id < l.id}) = k - 1)]
    IN  Value1(Frame, {l \in db.line_items :
                          \E r \in db.receipts : l.receipt_id = r.id /\ r.id = receipt_id})

\* get_receipt_metadata(receipt_id)
get_receipt_metadata(db, receipt_id) ==
    LET data == {r \in db.receipts : r.id = receipt_id}
    IN  IF data # {}
        THEN LET r == CHOOSE r \in data : TRUE IN <<r.total_amount, r.tax_amount>>
        ELSE <<FZero, FZero>>

\* lines 96-103 without line 99: only the table receipts is dropped
app_clear_database_receipts_only(db) ==
    [receipts |-> {}, line_items |-> db.line_items,
     sqlite_sequence |-> [receipts |-> 0, line_items |-> db.sqlite_sequence.line_items]]

\* clear_database(): both tables dropped and created again, their
\* AUTOINCREMENT counters with them
app_clear_database(db) ==
    [receipts |-> {}, line_items |-> {},
     sqlite_sequence |-> [receipts |-> 0, line_items |-> 0]]

\* the first n of the prices added up in row order from 0.0
RECURSIVE SumUpTo(_, _)
SumUpTo(prices, n) ==
    IF n = 0 THEN FZero ELSE FAdd(SumUpTo(prices, n - 1), prices[n])

\* items_df['Total Price'].sum()
sum(prices) == LET Of(s) == SumUpTo(s, Len(s)) IN Value1(Of, prices)

\* 0.1
Threshold == FDecimal(10)

\* lines 266-307: what the detail view shows of the selected receipt
Reconciliation(db, selected_id) ==
    LET Shown(items_df, meta) ==
            LET official_total == meta[1]
                official_tax   == meta[2]
                total_price    == [k \in 1..Len(items_df) |->
                                      FMul(FFromInt(items_df[k].Quantity),
                                           items_df[k].UnitPrice)]
                calculated_subtotal    == sum(total_price)
                calculated_grand_total == FAdd(calculated_subtotal, official_tax)
                discrepancy    == FSub(official_total, calculated_grand_total)
            IN  IF items_df # <<>>
                THEN IF FLt(FAbs(discrepancy), Threshold) THEN "VALID" ELSE "INVALID"
                ELSE "No line items extracted"
    IN  Value2(Shown, get_detailed_bill_data(db, selected_id),
               get_receipt_metadata(db, selected_id))

\* the documents uploaded, as the lines of their text
Documents ==
    { <<>>,
      <<1, 2>>,
      <<1, 12, 3>>,
      <<1, 13, 9, 2>>,
      <<1, 12, 13, 2>>,
      <<14, 12>> }

\* parse_receipt_data and parse_line_items_data are functions of the text
\* and the day alone: their results on the documents are computed once
DocumentsParsed ==
    {<<doc, day, parse_receipt_data(Text(doc), strftime(day)),
       parse_line_items_data(Text(doc))>> : doc \in Documents, day \in {Days[n] : n \in 1..Len(Days)}}

Parsed(doc, day) == CHOOSE t \in DocumentsParsed : t[1] = doc /\ t[2] = day

\* "Process & Save to Vault" pressed: lines 234-250 of main()
ProcessAndSave(doc) ==
    \E parsed \in {Parsed(doc, today)} :
    LET receipt_data == parsed[3]
        items        == parsed[4]
        is_duplicate == app_check_if_receipt_exists(receipts, receipt_data.merchant,
                            receipt_data.date, receipt_data.total)
    IN
    /\ sqlite_sequence.receipts < MaxUploads
    /\ IF is_duplicate
       THEN /\ last' = [op |-> "upload", stage |-> "duplicate", doc |-> doc,
                        receipt_id |-> 0]
            /\ UNCHANGED store
       ELSE /\ SetDatabase(app_save_receipt_to_db(Database, receipt_data.merchant,
                               receipt_data.date, receipt_data.total, receipt_data.tax,
                               doc, items, today))
            /\ last' = [op |-> "upload", stage |-> "saved", doc |-> doc,
                        receipt_id |-> sqlite_sequence.receipts + 1]
    /\ UNCHANGED <<session, today>>

\* sidebar "Clear All Records"
ClearAllRecords ==
    /\ SetDatabase(app_clear_database(Database))
    /\ last' = [op |-> "clear", cleared |-> {r.id : r \in receipts}]
    /\ UNCHANGED <<session, today>>

\* an id picked in "Select ID to view items:"
ViewBill(selected_id) ==
    /\ last' = [op |-> "view", receipt_id |-> selected_id,
                shown |-> Reconciliation(Database, selected_id)]
    /\ UNCHANGED <<store, session, today>>

InitApp ==
    /\ receipts = {}
    /\ line_items = {}
    /\ sqlite_sequence = [receipts |-> 0, line_items |-> 0]
    /\ current_receipt = None
    /\ current_line_items = <<>>
    /\ validation_status = None
    /\ today = Days[1]
    /\ last = [op |-> "start"]

NextApp ==
    \/ \E doc \in Documents : ProcessAndSave(doc)
    \/ ClearAllRecords
    \/ \E r \in receipts : ViewBill(r.id)
    \/ Midnight

SpecApp == InitApp /\ [][NextApp]_vars

-----------------------------------------------------------------------------
(* validate_receipt on its own: a receipt whose amounts are decimal        *)
(* literals of whole cents is drawn, then validated.                       *)

SubtotalCents == {-100, 0, 100, 410, 1000, 10000}

TaxCents == {-1, 0, 7, 30, 80, 123, 3000, 3001}

TotalCents == {0, 4, 533, 1080, 1083, 1084, 13000}

Merchants == {Str("Acme"), Str("Unknown"), None}

Dates == {Str(Days[1]), Str(""), None}

InitValidate ==
    /\ receipts = {}
    /\ line_items = {}
    /\ sqlite_sequence = [receipts |-> 0, line_items |-> 0]
    /\ \E m \in Merchants, d \in Dates,
          s \in SubtotalCents, t \in TaxCents, T \in TotalCents :
            /\ current_receipt =
                   <<[merchant |-> m, date |-> d, invoice_number |-> Str("Unknown"),
                      subtotal |-> FDecimal(s), tax |-> FDecimal(t), total |-> FDecimal(T)]>>
            /\ last = [op |-> "receipt", subtotal |-> s, tax |-> t, total |-> T,
                       is_dup |-> FALSE]
    /\ current_line_items = <<>>
    /\ validation_status = None
    /\ today = Days[1]

Validate(is_dup) ==
    /\ validation_status = None
    /\ validation_status' = <<validate_receipt(current_receipt[1], is_dup)>>
    /\ last' = [last EXCEPT !.op = "validate", !.is_dup = is_dup]
    /\ UNCHANGED <<store, current_receipt, current_line_items, today>>

NextValidate == \E is_dup \in BOOLEAN : Validate(is_dup)

SpecValidate == InitValidate /\ [][NextValidate]_vars

\* the receipt validated and its verdict
Validated1 == validation_status # None /\ last.op = "validate"

Verdict == validation_status[1]

Abs(n) == IF n < 0 THEN -n ELSE n

-----------------------------------------------------------------------------
(* parse_receipt_data and parse_line_items_data run on one text more than   *)
(* once, the clock moving between the runs.  A text is built of the lines   *)
(* below.  Beside its characters a line records the price it ends with, in  *)
(* hundredths (-1 if it ends with none), the text before that price,        *)
(* trimmed, and the integer of the "N x" that text starts with (-1 if it    *)
(* starts with none).                                                       *)

PrintedLines ==
    <<
      \* 1: Shop
      [chars |-> <<"S", "h", "o", "p">>,
       before |-> <<>>, cents |-> -1, prefix |-> -1],
      \* 2: Coffee 10.00
      [chars |-> <<"C", "o", "f", "f", "e", "e", " ", "1", "0", ".", "0", "0">>,
       before |-> <<"C", "o", "f", "f", "e", "e">>, cents |-> 1000, prefix |-> -1],
      \* 3: 2 x Tea 4.00
      [chars |-> <<"2", " ", "x", " ", "T", "e", "a", " ", "4", ".", "0", "0">>,
       before |-> <<"2", " ", "x", " ", "T", "e", "a">>, cents |-> 400, prefix |-> 2],
      \* 4: 0 x Bun 4.10
      [chars |-> <<"0", " ", "x", " ", "B", "u", "n", " ", "4", ".", "1", "0">>,
       before |-> <<"0", " ", "x", " ", "B", "u", "n">>, cents |-> 410, prefix |-> 0],
      \* 5: VISA 10.10
      [chars |-> <<"V", "I", "S", "A", " ", "1", "0", ".", "1", "0">>,
       before |-> <<"V", "I", "S", "A">>, cents |-> 1010, prefix |-> -1],
      \* 6: Taxi 5.00
      [chars |-> <<"T", "a", "x", "i", " ", "5", ".", "0", "0">>,
       before |-> <<"T", "a", "x", "i">>, cents |-> 500, prefix |-> -1],
      \* 7: Total: 8.64
      [chars |-> <<"T", "o", "t", "a", "l", ":", " ", "8", ".", "6", "4">>,
       before |-> <<"T", "o", "t", "a", "l", ":">>, cents |-> 864, prefix |-> -1],
      \* 8: 3X 1.20
      [chars |-> <<"3", "X", " ", "1", ".", "2", "0">>,
       before |-> <<"3", "X">>, cents |-> 120, prefix |-> 3],
      \* 9: 01/02/2024
      [chars |-> <<"0", "1", "/", "0", "2", "/", "2", "0", "2", "4">>,
       before |-> <<>>, cents |-> -1, prefix |-> -1],
      \* 10: CASH $2.00
      [chars |-> <<"C", "A", "S", "H", " ", "$", "2", ".", "0", "0">>,
       before |-> <<"C", "A", "S", "H">>, cents |-> 200, prefix |-> -1] >>

\* lines a text run more than once has at most
MaxPrinted == 3

\* the texts of at most n lines, each a sequence of indexes into PrintedLines
PrintedUpTo(n) == UNION {[1..k -> 1..Len(PrintedLines)] : k \in 0..n}

\* the characters of a text
RECURSIVE PrintedTextUpTo(_, _)
PrintedTextUpTo(lines, n) ==
    IF n = 0 THEN <<>>
    ELSE IF n = 1 THEN PrintedLines[lines[1]].chars
    ELSE PrintedTextUpTo(lines, n - 1) \o <<"\n">> \o PrintedLines[lines[n]].chars

PrintedText(lines) == PrintedTextUpTo(lines, Len(lines))

InitExtract ==
    /\ receipts = {}
    /\ line_items = {}
    /\ sqlite_sequence = [receipts |-> 0, line_items |-> 0]
    /\ current_receipt = None
    /\ current_line_items = <<>>
    /\ validation_status = None
    /\ today = Days[1]
    /\ \E lines \in PrintedUpTo(MaxPrinted) : last = [op |-> "printed", lines |-> lines]

\* lines 236-238 of main(): the two extractors run on the text, for the first
\* time or, the same text given again, for the second; the results of the
\* first run are kept beside those of the second
Extract ==
    /\ IF last.op = "printed" THEN TRUE ELSE last.before = <<>>
    /\ \E text \in {PrintedText(last.lines)} :
          last' = [op         |-> "extract",
                   lines      |-> last.lines,
                   data       |-> parse_receipt_data(text, strftime(today)),
                   line_items |-> parse_line_items_data(text),
                   before     |-> IF last.op = "printed" THEN <<>>
                                  ELSE <<[data |-> last.data,
                                          line_items |-> last.line_items]>>]
    /\ UNCHANGED <<store, session, today>>

NextExtract ==
    \/ Extract
    \/ Midnight

SpecExtract == InitExtract /\ [][NextExtract]_vars

-----------------------------------------------------------------------------
(* Claims                                                                  *)

\* a step of the upload handler (Midnight is the other step that can leave
\* `last` an upload, and it moves the clock)
UploadStep == last'.op = "upload" /\ today' = today

\* the store's equality on the columns the lookup names: the triple, and the
\* invoice number when the upload has one that is not "Unknown"
C1_Matches(r, d) ==
    /\ SqlEq(r.merchant, d.merchant)
    /\ SqlEq(r.date, d.date)
    /\ SqlEq(r.total_amount, <<d.total>>)
    /\ (d.invoice_number \notin {None, Str(""), Str("Unknown")}
           => SqlEq(r.invoice_number, d.invoice_number))

\* C1 (amended): the dup rule of an upload passes if and only if no receipt in
\* the store before the upload's own insert (persisted by an earlier operation
\* and not since deleted) matches it on (merchant, date, total) and, when the
\* upload has an invoice number that is not "Unknown", on invoice_number too,
\* under the store's equality (a null equals nothing).
C1_DupIffNoEarlierMatch ==
    [][UploadStep /\ last'.stage \in {"saved", "save_raised"} =>
          (validation_status'[1].dup[1]
              <=> ~\E r \in receipts : C1_Matches(r, current_receipt'[1]))]_vars

\* C1 as stated: the dup rule passes if and only if no earlier persisted
\* receipt has the upload's (merchant, date, total).
C1_DupIffNoEarlierTriple ==
    [][UploadStep /\ last'.stage \in {"saved", "save_raised"} =>
          (validation_status'[1].dup[1]
              <=> ~\E r \in receipts :
                     /\ r.merchant = current_receipt'[1].merchant
                     /\ r.date = current_receipt'[1].date
                     /\ r.total_amount = <<current_receipt'[1].total>>)]_vars

\* C1 witness: a second upload with no invoice number, saved after an equal
\* receipt, whose dup rule failed; the first of the two passed it
C1_Witness ==
    /\ last.op = "upload" /\ last.stage = "saved"
    /\ current_receipt[1].invoice_number = Str("Unknown")
    /\ ~validation_status[1].dup[1]
    /\ \E r \in receipts :
          /\ r.id < last.receipt_id
          /\ C1_Matches(r, current_receipt[1])

\* C2: when the request to the service raises or its content is not JSON, the
\* upload ends as the reported failure: parse_with_groq gives no structured
\* result, and no receipt row and no line-item row is added.
C2_FailedServiceNothingPersisted ==
    [][UploadStep /\ last'.kind \in {"request_error", "bad_json"} =>
          /\ last'.structured_data = None
          /\ last'.stage = "could_not_parse"
          /\ receipts' = receipts
          /\ line_items' = line_items
          /\ sqlite_sequence' = sqlite_sequence]_vars

\* C2 witness: a failed call reported over a store that holds receipts
C2_Witness ==
    /\ last.op = "upload"
    /\ last.kind \in {"request_error", "bad_json"}
    /\ last.stage = "could_not_parse"
    /\ receipts # {}
    /\ line_items # {}

\* C3: for every receipt of whole-cent amounts, math passes if and only if
\* |subtotal + tax - total| <= 0.03, the boundary included: a difference of
\* exactly 3 cents passes, one of 4 cents fails.
C3_MathIffWithinThreeCents ==
    Validated1 =>
        (Verdict.math[1] <=> Abs(last.subtotal + last.tax - last.total) <= 3)

\* C4: tax_rate: with subtotal > 0 it passes if and only if
\* 0 <= tax / subtotal * 100 <= 30; with subtotal <= 0 it passes with "N/A".
C4_TaxRateIffAtMostThirty ==
    Validated1 =>
        IF last.subtotal > 0
        THEN Verdict.tax_rate[1] <=>
                (0 <= last.tax /\ 100 * last.tax <= 30 * last.subtotal)
        ELSE Verdict.tax_rate = <<TRUE, <<"N/A">> >>

\* the fields the rule calls missing, in the order Merchant, Date, Total
C7_Missing ==
    LET data == current_receipt[1]
        gone(f) == CASE f = "Merchant" -> data.merchant = Str("Unknown")
                     [] f = "Date"     -> data.date \in {None, Str("")}
                     [] f = "Total"    -> last.total = 0
    IN  SelectSeq(<<"Merchant", "Date", "Total">>, gone)

\* C7: fields passes if and only if merchant is not "Unknown", date is
\* non-empty and total is not 0.0; on failure the message lists exactly the
\* missing ones of Merchant, Date, Total, in that order.
C7_FieldsIffAllPresent ==
    Validated1 =>
        /\ Verdict.fields[1] <=> C7_Missing = <<>>
        /\ ~Verdict.fields[1] =>
              Verdict.fields[2] = <<"Missing: ">> \o JoinComma(C7_Missing)

\* C7 witness: a receipt missing its merchant and its total, and not its date
C7_Witness ==
    /\ Validated1
    /\ Verdict.fields = <<FALSE, <<"Missing: ", "Merchant", ", ", "Total">> >>

\* the queries of C8
C8_Totals == {FZero, FFromCents(533), FFromCents(1083)}

C8_Queries ==
    [merchant : {Str("Acme"), Str("Unknown"), None},
     date : {Str(Days[1]), Str(Days[2]), Str("")},
     total : C8_Totals,
     invoice_num : {Str("INV-1"), Str("INV-2"), Str("Unknown"), Str(""), None}]

C8_Answer(q) ==
    check_if_receipt_exists(receipts, q.merchant, q.date, q.total, q.invoice_num)

\* C8 (amended): check_if_receipt_exists returns (count > 0, count), count
\* being the number of stored receipts equal to the query, under the store's
\* equality (a null column or a None argument equals nothing), on merchant,
\* date and total, and on invoice_number too if and only if invoice_num is
\* non-empty and not "Unknown".
C8_CountsStoreMatches ==
    \A q \in C8_Queries :
        LET with_invoice == q.invoice_num \notin {None, Str(""), Str("Unknown")}
            count == Cardinality({r \in receipts :
                        /\ SqlEq(r.merchant, q.merchant)
                        /\ SqlEq(r.date, q.date)
                        /\ SqlEq(r.total_amount, <<q.total>>)
                        /\ (with_invoice => SqlEq(r.invoice_number, q.invoice_num))})
        IN  C8_Answer(q) = <<count > 0, count>>

\* C8 as stated: count is the number of stored receipts whose merchant, date
\* and total are the query's, and whose invoice number is the query's if and
\* only if invoice_num is non-empty and not "Unknown".
C8_CountsEqualReceipts ==
    \A q \in C8_Queries :
        LET with_invoice == q.invoice_num \notin {None, Str(""), Str("Unknown")}
            count == Cardinality({r \in receipts :
                        /\ r.merchant = q.merchant
                        /\ r.date = q.date
                        /\ r.total_amount = <<q.total>>
                        /\ (with_invoice => r.invoice_number = q.invoice_num)})
        IN  C8_Answer(q) = <<count > 0, count>>

\* C8 witness: two stored receipts with one (merchant, date, total) and
\* different invoice numbers: the query without invoice number counts both,
\* the query with one of the numbers counts one
C8_Witness ==
    LET q == [merchant |-> Str("Acme"), date |-> Str(Days[1]),
              total |-> FFromCents(1083), invoice_num |-> Str("Unknown")]
    IN  /\ C8_Answer(q) = <<TRUE, 2>>
        /\ C8_Answer([q EXCEPT !.invoice_num = Str("INV-1")]) = <<TRUE, 1>>

\* the hundredths nearest to a double: the decimal amount it was read from
Cents(x) == LET f == Fmt(x, 100) IN IF f.neg THEN -f.n ELSE f.n

\* the sum of price * qty over line-item rows, in hundredths
RECURSIVE C5_ItemCents(_)
C5_ItemCents(rows) ==
    IF rows = {} THEN 0
    ELSE LET l == CHOOSE l \in rows : TRUE
         IN  l.qty * Cents(l.price) + C5_ItemCents(rows \ {l})

\* C5: for a stored receipt that has line items, the reconciliation reports
\* VALID if and only if |official_total - (sum of price * qty + tax)| < 0.10,
\* the amounts being those of the receipt (whole cents): a discrepancy of
\* exactly 0.10 is INVALID.
C5_ValidIffUnderTenCents ==
    last.op = "view" /\ last.shown \in {"VALID", "INVALID"} =>
        LET r     == CHOOSE r \in receipts : r.id = last.receipt_id
            items == {l \in line_items : l.receipt_id = last.receipt_id}
            discrepancy == Cents(r.total_amount)
                           - (C5_ItemCents(items) + Cents(r.tax_amount))
        IN  last.shown = "VALID" <=> Abs(discrepancy) < 10

\* C6: every rule gives a definite pass or fail with an explanation:
\* validate_receipt gives exactly math, dup, tax_rate and fields, each a
\* (bool, message) pair, and the reconciliation of every stored receipt shown
\* ends VALID or INVALID, a receipt with no line items included.
C6_EveryRuleGivesVerdict ==
    /\ \A t \in ServiceVerdicts :
          /\ DOMAIN t[3] = {"math", "dup", "tax_rate", "fields"}
          /\ \A rule \in DOMAIN t[3] :
                /\ t[3][rule][1] \in BOOLEAN
                /\ t[3][rule][2] # <<>>
    /\ last.op = "view" => last.shown \in {"VALID", "INVALID"}

\* the lines of the parsed text that read as a "Total" with an amount
C9_TotalLines == {i \in 1..Len(last.lines) : Lines[last.lines[i]].kind = "total"}

\* the amounts the total pattern matches, as <<line, cents>>: a keyword of the
\* pattern with its amount on the line, or alone on a line with the amount
\* alone on the next
C9_Matches ==
    {<<i, Lines[last.lines[i]].cents>> :
        i \in {j \in 1..Len(last.lines) :
                  Lines[last.lines[j]].kind \in {"total", "keyword"}}}
    \cup
    {<<i, Lines[last.lines[i + 1]].cents>> :
        i \in {j \in 1..(Len(last.lines) - 1) :
                  /\ Lines[last.lines[j]].kind = "word"
                  /\ Lines[last.lines[j + 1]].kind = "amount"}}

\* C9 (amended): for a text with several "Total: X.XX" occurrences, the total
\* parse_receipt_data returns is the amount of the last match, in text order,
\* of the total pattern: any of the keywords Total, Amount, Due, Balance and
\* Grand Total, inside a longer word such as Subtotal too, followed by an
\* amount, line break between them or not.
C9_TotalIsLastPatternMatch ==
    last.op = "parse" /\ Cardinality(C9_TotalLines) >= 2 =>
        LET m == CHOOSE m \in C9_Matches : \A n \in C9_Matches : n[1] <= m[1]
        IN  last.data.total = FDecimal(m[2])

\* C9 as stated: for a text with several "Total: X.XX" occurrences, the total
\* returned is the amount of the last of them, whatever other keyword lines
\* the text has.
C9_TotalIsLastTotalLine ==
    last.op = "parse" /\ Cardinality(C9_TotalLines) >= 2 =>
        last.data.total = FDecimal(Lines[last.lines[SetMax(C9_TotalLines)]].cents)

\* C9 witness: "Total: 8.64", "Total: 10.10", "Amount Due: 5.00" parsed to
\* the total 5.00
C9_Witness ==
    /\ last.op = "parse"
    /\ last.lines = <<2, 3, 6>>
    /\ last.data.total = FDecimal(500)

\* the amounts of the lines that read as a tax keyword with an amount
C10_TaxCents ==
    {Lines[last.lines[i]].cents :
        i \in {j \in 1..Len(last.lines) : Lines[last.lines[j]].kind = "tax"}}

\* C10: the tax parse_receipt_data returns is the largest amount among the
\* tax-keyword occurrences of the text, in whatever order they stand, and 0.0
\* if the text has none.
C10_TaxIsLargestTaxAmount ==
    last.op = "parse" =>
        last.data.tax = IF C10_TaxCents = {} THEN FZero
                        ELSE FDecimal(SetMax(C10_TaxCents))

\* C10 witness: "VAT: 1.20" before "Tax 0.64", parsed to the tax 1.20
C10_Witness ==
    /\ last.op = "parse"
    /\ Len(last.lines) = 3
    /\ last.lines[1] = 10 /\ last.lines[2] = 9
    /\ Lines[last.lines[3]].kind # "tax"
    /\ last.data.tax = FDecimal(120)

\* the words of C11, in lower case
C11_Words ==
    { <<"t", "o", "t", "a", "l">>, <<"a", "m", "o", "u", "n", "t">>,
      <<"d", "u", "e">>, <<"v", "i", "s", "a">>,
      <<"m", "a", "s", "t", "e", "r", "c", "a", "r", "d">>,
      <<"c", "a", "s", "h">>, <<"c", "h", "a", "n", "g", "e">>,
      <<"t", "a", "x">> }

\* the name candidate of a line of PrintedLines, lower-cased, contains a word
\* of C11
C11_Excluded(line) ==
    \E w \in C11_Words : Contains(PrintedLines[line].before, w)

\* an item is of a line of PrintedLines: its price is the price the line ends
\* with and its name is the end of the text before that price
C11_Of(item, line) ==
    LET b == PrintedLines[line].before
    IN  /\ PrintedLines[line].cents >= 0
        /\ item.price = FDecimal(PrintedLines[line].cents)
        /\ Len(item.name) <= Len(b)
        /\ item.name = SubSeq(b, Len(b) - Len(item.name) + 1, Len(b))

\* the ways to give each emitted item a line of the text, in source order
C11_InOrder ==
    {f \in [1..Len(last.line_items) -> 1..Len(last.lines)] :
        \A j, k \in 1..Len(last.line_items) : j < k => f[j] < f[k]}

\* C11: for every text, the items parse_line_items_data emits are items of
\* lines of the text, taken in source line order, and none of them is of a
\* line whose name candidate (the text before the trailing price), lower-cased,
\* contains total, amount, due, visa, mastercard, cash, change or tax; a VISA
\* line with a trailing amount gives no item.
C11_NoItemOfExcludedLine ==
    last.op = "extract" =>
        \E f \in C11_InOrder :
            \A k \in 1..Len(last.line_items) :
                /\ C11_Of(last.line_items[k], last.lines[f[k]])
                /\ ~C11_Excluded(last.lines[f[k]])

\* C11 witness: "Coffee 10.00", "VISA 10.10", "2 x Tea 4.00" gives the two
\* items Coffee and Tea, in that order, and none for the VISA line
C11_Witness ==
    /\ last.op = "extract"
    /\ last.lines = <<2, 5, 3>>
    /\ Len(last.line_items) = 2
    /\ last.line_items[1].name = <<"C", "o", "f", "f", "e", "e">>
    /\ last.line_items[2].name = <<"T", "e", "a">>

\* C12: running parse_receipt_data and parse_line_items_data a second time on
\* the same text gives the results of the first run in every field (merchant,
\* date, total, tax, line items), a text in which no date pattern matches
\* included.
C12_SecondRunEqualsFirst ==
    last.op = "extract" /\ last.before # <<>> =>
        last.before[1] = [data |-> last.data, line_items |-> last.line_items]

\* C13: every item parse_line_items_data emits has a name that is non-empty
\* and trimmed, a price that is not negative, and a qty that is a positive
\* integer: the integer of the "N x" its line starts with, the name being
\* what follows that prefix, or 1 for a line that starts with none.
C13_ItemsWellFormed ==
    last.op = "extract" =>
        \E f \in C11_InOrder :
            \A k \in 1..Len(last.line_items) :
                LET item == last.line_items[k]
                    line == PrintedLines[last.lines[f[k]]]
                IN  /\ C11_Of(item, last.lines[f[k]])
                    /\ item.name # <<>>
                    /\ strip(item.name) = item.name
                    /\ FLe(FZero, item.price)
                    /\ item.qty \in Nat \ {0}
                    /\ IF line.prefix >= 0
                       THEN item.qty = line.prefix /\ Len(item.name) < Len(line.before)
                       ELSE item.qty = 1 /\ item.name = line.before

\* the rows of a table of line items that reference a receipt, as the
\* (name, qty, price) they hold, in rowid order
C14_ItemsOf(rows, receipt_id) ==
    LET of == {l \in rows : l.receipt_id = receipt_id}
    IN  [k \in 1..Cardinality(of) |->
            LET l == CHOOSE l \in of : Cardinality({m \in of : m.id < l.id}) = k - 1
            IN  [name |-> l.name, qty |-> l.qty, price |-> l.price]]

\* C14: a save is all or nothing.  An upload whose save_receipt_to_db raised,
\* at the receipt row or at any line item (an item of the service without
\* qty and price is one), leaves both tables as they were; an upload whose
\* save succeeded adds exactly the receipt row, under the id returned, and
\* exactly its line items, all of them, referencing that id.
C14_SaveAllOrNothing ==
    [][UploadStep /\ last'.stage \in {"saved", "save_raised"} =>
          IF last'.stage = "save_raised"
          THEN receipts' = receipts /\ line_items' = line_items
          ELSE /\ \E row \in receipts' :
                     /\ receipts' = receipts \cup {row}
                     /\ row \notin receipts
                     /\ row.id = last'.receipt_id
                     /\ row.merchant = current_receipt'[1].merchant
                     /\ row.total_amount = <<current_receipt'[1].total>>
               /\ line_items \subseteq line_items'
               /\ \A l \in line_items' \ line_items : l.receipt_id = last'.receipt_id
               /\ C14_ItemsOf(line_items', last'.receipt_id) = current_line_items']_vars

\* C14 witness: over a store that holds a receipt with its items, an upload
\* of the items Coffee and one without qty and price ended in the save
\* raising at the second item, and the store holds nothing of that upload
C14_Witness ==
    /\ last.op = "upload" /\ last.stage = "save_raised"
    /\ current_line_items = <<Coffee, Nameless>>
    /\ receipts # {} /\ line_items # {}
    /\ \A r \in receipts : r.merchant # current_receipt[1].merchant
    /\ \A l \in line_items : \E r \in receipts : r.id = l.receipt_id

\* C15: in every reachable state of the session holders, after uploads that
\* succeeded and uploads that failed (at the service or at the store, at any
\* step), deletes and clears, validation_status is unset or is
\* validate_receipt of the current_receipt and of a duplicate-lookup result,
\* and current_line_items are the items of the object current_receipt was
\* built from.
C15_VerdictOfHeldReceipt ==
    /\ validation_status # None =>
          /\ current_receipt # None
          /\ \E is_dup \in BOOLEAN :
                validation_status[1] = Validated(current_receipt[1], is_dup)
    /\ current_receipt # None =>
          \E o \in ServiceObjects \ {<<>>}, n \in 1..Len(Days) :
              /\ \A k \in {"subtotal", "tax", "total"} : ~FloatRaises(Get(o, k, <<FZero>>))
              /\ current_receipt[1] = ReceiptData(o, Days[n])
              /\ current_line_items = Get(o, "line_items", <<>>)

\* a stored receipt has the (merchant, date, total) of parsed receipt data
C16_Same(r, data) ==
    /\ r.merchant = data.merchant
    /\ r.date = data.date
    /\ r.total_amount = data.total

\* C16: in app.py, uploads being processed one at a time, after every
\* "Process & Save" and every "Clear All Records" no two receipts of the
\* store have the same (merchant, date, total), and an upload whose
\* (merchant, date, total) a stored receipt has is rejected as a duplicate
\* and leaves the tables receipts and line_items as they were.
C16_NoTwoReceiptsAlike ==
    [][/\ \A r1, r2 \in receipts' :
             C16_Same(r1, [merchant |-> r2.merchant, date |-> r2.date,
                           total |-> r2.total_amount]) => r1 = r2
       /\ UploadStep /\ (\E r \in receipts : C16_Same(r, Parsed(last'.doc, today)[3])) =>
             /\ last'.stage = "duplicate"
             /\ receipts' = receipts
             /\ line_items' = line_items]_vars

\* C16 witness: over a store that holds the receipt of a document and its
\* line items, the document uploaded again was rejected
C16_Witness ==
    /\ last.op = "upload" /\ last.stage = "duplicate"
    /\ \E r \in receipts :
          /\ r.filename = last.doc
          /\ C16_Same(r, Parsed(last.doc, today)[3])
          /\ \E l \in line_items : l.receipt_id = r.id

\* the line items app.py fetches for a receipt id, as (name, qty, price)
C17_Fetched(receipt_id) ==
    LET df == get_detailed_bill_data(Database, receipt_id)
    IN  [k \in 1..Len(df) |-> [name |-> df[k].ItemName, qty |-> df[k].Quantity,
                               price |-> df[k].UnitPrice]]

\* every line-item row references a receipt of the store, and the line items
\* fetched for a receipt are those saved with it: those of its document
C17_Integrity ==
    /\ \A l \in line_items : \E r \in receipts : r.id = l.receipt_id
    /\ \A r \in receipts : C17_Fetched(r.id) = Parsed(r.filename, Days[1])[4]

C17_Milestone2 ==
    [][/\ \A l \in line_items' : \E r \in receipts' : r.id = l.receipt_id
       /\ \A r \in receipts' \cap receipts :
             get_line_items(line_items', r.id) = get_line_items(line_items, r.id)
       /\ \A r \in receipts' \ receipts :
             /\ r.id > sqlite_sequence.receipts
             /\ \A q \in receipts : q.id # r.id
       /\ sqlite_sequence'.receipts >= sqlite_sequence.receipts
       /\ \A r \in receipts : r.id <= sqlite_sequence.receipts]_vars

====
